---- MODULE Spec2Model ----
(***************************************************************************)
(* xipology: a byte-framed covert channel over the cache of a recursive    *)
(* DNS resolver.  The model covers lib/xipology.rs (name derivator, frame  *)
(* codec, channel engine), lib/utils.rs (bit helpers) and the calibration  *)
(* of lib/autoconf.rs, over a resolver that caches every name it is asked  *)
(* for and never forgets it.                                               *)
(*                                                                         *)
(* HKDF-SHA512 and base64 are not computed: the n-th block a derivator     *)
(* expands is the pair (secret, n), so two blocks are equal exactly when   *)
(* they come from the same secret and the same number of extractions.      *)
(***************************************************************************)
EXTENDS Integers, Sequences, FiniteSets, TLC

(* ------------------------------ bounds ------------------------------- *)

\* Frames a channel may walk past its construction before it must be reset.
MaxFrames == 2
\* Calls made in one run of the free-running system.
MaxCalls == 4
\* Latency of a cached name and of an uncached name, in microseconds.
HitLatency == 1
MissLatency == 10
\* Longest message of single-byte writes in a round trip.
MaxMsgLen == 3
\* Longest buffer handed to write_bytes in a round trip.
MaxBufLen == 256
\* Decoy slots handed to read_bits next to the slots of a frame.
MaxDecoys == 2
\* Calls made in one run over a failing transport.
MaxNetCalls == 3
\* Largest latency and largest calibration average, in microseconds.
MaxLatency == 5
\* Calls made in one run that follows the single probes.
MaxProbeCalls == 2
\* Longest payload whose probes are followed one by one.
MaxProbeFrames == 1
\* Last second of the clock and number of secrets drawn in one run of the
\* rendezvous generator.
MaxEpoch == 900
MaxSecrets == 4
\* Turns of the rendezvous loop taken by the two participants together, and
\* the last second of their clock.
MaxRdvCalls == 6
MaxRdvEpoch == 600
\* Worker threads that share the probes of one fan-out when calls race.
Workers == 3

(* ------------------------- program constants ------------------------- *)

DECOY_BITS == 0
\* Measurements test_query_time_differences averages.
Tests == 20
\* rendezvous: `let n = 5` minutes per window.
WindowMinutes == 5

Byte == 0 .. 255
\* A secret is a byte string, held in a one-element tuple to tell it from a
\* block, which seeds the decoy derivator.
Secrets == {<<"test">>, <<"s">>}
Channels == {"A", "B"}
ByteChoices == {0, 1, 65}
Server == "resolver"

(* ------------------------------ utils.rs ----------------------------- *)

Pow2(n) == 2 ^ n

GetBit(byte, bit) == (byte \div Pow2(bit)) % 2

\* A set_bit that assigns the mask instead of or-ing it in.
SetBitOverwrites(byte, bit) == Pow2(bit)

SetBit(byte, bit) ==
    IF GetBit(byte, bit) = 1 THEN byte ELSE (byte + Pow2(bit)) % 256

(* --------------------------- NameDerivator --------------------------- *)

\* The salt is the number of extractions chained so far over the secret of
\* the derivator that owns it (0: the HMAC key of the empty string).
InitialSalt == 0

FromSecret(secret) == [salt |-> InitialSalt, secret |-> secret]

\* prk = extract(salt, secret); out = expand(prk); salt := prk.
HkdfExtractAndExpand(nd) ==
    [out |-> <<nd.secret, nd.salt>>, nd |-> [nd EXCEPT !.salt = @ + 1]]

\* Two base64 labels of one block under the sink zone.
NameOf(buf) == <<buf[1], buf[2]>>

NextName(nd) ==
    LET r == HkdfExtractAndExpand(nd)
    IN  [name |-> NameOf(r.out), nd |-> r.nd]

(* ------------------------------ XipoBits ----------------------------- *)

Reservation == <<"Reservation", 0>>
Guard == <<"Guard", 0>>
Parity == <<"Parity", 0>>
Decoy == <<"Decoy", 0>>
Data(i) == <<"Data", i>>

(* ------------------------------ results ------------------------------ *)

Ok(v) == [kind |-> "Ok", val |-> v]
Err(e) == [kind |-> e, val |-> 0]
Free == Err("Free")
Consumed == Err("Consumed")
ParityError == Err("Parity")
IO == Err("IO")
Panic == Err("panic")
Unit == Err("unit")

None == <<>>
Some(v) == <<v>>

(* ------------------------------ Xipology ----------------------------- *)

XipologyFromSecret(server, secret) ==
    LET r == HkdfExtractAndExpand(FromSecret(secret))
    IN  [derivator |-> r.nd,
         decoy |-> FromSecret(r.out),
         secret |-> secret,
         server |-> server,
         query_times |-> None]

\* A reset that rewinds the derivators and keeps the calibration.
XipologyResetKeepsTimes(x) ==
    LET r == HkdfExtractAndExpand(FromSecret(x.secret))
    IN  [x EXCEPT !.derivator = r.nd, !.decoy = FromSecret(r.out)]

XipologyReset(x) ==
    LET r == HkdfExtractAndExpand(FromSecret(x.secret))
    IN  [x EXCEPT !.derivator = r.nd,
                  !.query_times = None,
                  !.decoy = FromSecret(r.out)]

XipologyChangeSecret(x, secret) == XipologyReset([x EXCEPT !.secret = secret])

\* The draws rng.gen_range(0, DECOY_BITS) can make; none is made when
\* DECOY_BITS is 0.
DecoyFlips == IF DECOY_BITS > 0 THEN 0 .. (DECOY_BITS - 1) ELSE {0}

\* The state of a frame being laid out: the derivator, the slots pushed so
\* far and the running parity.
FrameStart(nd) == [nd |-> nd, slots |-> <<>>, parity |-> FALSE]

\* Draw the next name; push it under `tag` when `emit`.
PushSlot(st, tag, emit) ==
    LET r == NextName(st.nd)
    IN  [st EXCEPT !.nd = r.nd,
                   !.slots = IF emit THEN Append(@, <<tag, r.name>>) ELSE @]

\* Emit `flips` decoy slots, then advance the decoy derivator past `flops`
\* more names.
RECURSIVE DecoySlots(_, _, _)
DecoySlots(st, flips, flops) ==
    IF flips > 0 THEN DecoySlots(PushSlot(st, Decoy, TRUE), flips - 1, flops)
    ELSE IF flops > 0 THEN DecoySlots(PushSlot(st, Decoy, FALSE), flips, flops - 1)
    ELSE st

DecoysDone(x, nd, dst) ==
    [x |-> [x EXCEPT !.derivator = nd, !.decoy = dst.nd], slots |-> dst.slots]

\* The end of byte_output and byte_input: the decoys, and the channel with
\* its derivators moved on.
WithDecoys(x, st, flips) ==
    IF DECOY_BITS > 0
    THEN DecoysDone(x, st.nd,
                    DecoySlots([st EXCEPT !.nd = x.decoy], flips, DECOY_BITS - flips))
    ELSE [x |-> [x EXCEPT !.derivator = st.nd], slots |-> st.slots]

\* A payload loop that draws a name only for the bits that are set.
OutputBitDrawsWhenSet(st, bit, set) ==
    IF set THEN [PushSlot(st, Data(bit), TRUE) EXCEPT !.parity = ~@] ELSE st

\* A payload loop that emits the slots of the bits that are not set.
OutputBitInverted(st, bit, set) ==
    [PushSlot(st, Data(bit), ~set) EXCEPT !.parity = IF set THEN ~@ ELSE @]

\* One turn of the payload loop of byte_output: a name for the bit, a slot
\* and a parity flip when the bit is set.
OutputBit(st, bit, set) ==
    [PushSlot(st, Data(bit), set) EXCEPT !.parity = IF set THEN ~@ ELSE @]

RECURSIVE OutputPayload(_, _, _)
OutputPayload(st, byte, bit) ==
    IF bit >= 8 THEN st
    ELSE OutputPayload(OutputBit(st, bit, GetBit(byte, bit) > 0), byte, bit + 1)

\* A writer that emits the Parity slot when the parity is even.
OutputParityOdd(st) == PushSlot(st, Parity, ~st.parity)

\* The Parity slot is emitted when the parity of the set bits is odd.
OutputParity(st) == PushSlot(st, Parity, st.parity)

\* A writer that emits the Guard slot as well.
ByteOutputWithGuard(x, byte, flips) ==
    WithDecoys(x,
               OutputParity(OutputPayload(
                   PushSlot(PushSlot(FrameStart(x.derivator), Reservation, TRUE),
                            Guard, TRUE),
                   byte, 0)),
               flips)

\* A writer that leaves the Guard out without drawing its name.
ByteOutputSkipsGuardName(x, byte, flips) ==
    WithDecoys(x,
               OutputParity(OutputPayload(
                   PushSlot(FrameStart(x.derivator), Reservation, TRUE),
                   byte, 0)),
               flips)

\* Reservation is emitted, the Guard name is drawn and dropped.
ByteOutput(x, byte, flips) ==
    WithDecoys(x,
               OutputParity(OutputPayload(
                   PushSlot(PushSlot(FrameStart(x.derivator), Reservation, TRUE),
                            Guard, FALSE),
                   byte, 0)),
               flips)

RECURSIVE InputPayload(_, _)
InputPayload(st, bit) ==
    IF bit >= 8 THEN st
    ELSE InputPayload(PushSlot(st, Data(bit), TRUE), bit + 1)

\* A reader that draws the Guard name and does not probe it.
ByteInputNoGuard(x, flips) ==
    WithDecoys(x,
               PushSlot(InputPayload(
                   PushSlot(PushSlot(FrameStart(x.derivator), Reservation, TRUE),
                            Guard, FALSE),
                   0), Parity, TRUE),
               flips)

ByteInput(x, flips) ==
    WithDecoys(x,
               PushSlot(InputPayload(
                   PushSlot(PushSlot(FrameStart(x.derivator), Reservation, TRUE),
                            Guard, TRUE),
                   0), Parity, TRUE),
               flips)

SlotNames(slots) == {slots[i][2] : i \in DOMAIN slots}

(* ------------------------ resolver and probes ------------------------ *)

\* A failed probe is timed as NaN, which compares false with everything.
NaN == 0 - 1

Abs(v) == IF v < 0 THEN 0 - v ELSE v

\* poke_name against a resolver that answers a name from its cache exactly
\* when it was asked for that name before: the elapsed microseconds.
PokeName(cached, name) == IF name \in cached THEN HitLatency ELSE MissLatency

\* A classifier with the two distances swapped.
IsHitSwapped(query_times, delay) ==
    IF delay = NaN THEN FALSE
    ELSE Abs(query_times.miss - delay) < Abs(query_times.hit - delay)

\* A classifier that takes a tie for a hit.
IsHitOrTie(query_times, delay) ==
    IF delay = NaN THEN FALSE
    ELSE Abs(query_times.hit - delay) <= Abs(query_times.miss - delay)

\* The closure is_hit of read_bits: hd < md.
IsHit(query_times, delay) ==
    IF delay = NaN THEN FALSE
    ELSE Abs(query_times.hit - delay) < Abs(query_times.miss - delay)

(* ------------------------------ autoconf ----------------------------- *)

\* One random name of the miss zone, asked for twice: the first answer is
\* resolved, the second comes from the cache.  The 32 random bytes make the
\* name new to the resolver and keep it out of the channel's zone.
MeasureQuery == <<MissLatency, HitLatency>>

RECURSIVE SumOf(_, _)
SumOf(f, n) == IF n = 0 THEN 0 ELSE f[n] + SumOf(f, n - 1)

TestQueryTimeDifferences ==
    Ok([miss |-> SumOf([i \in 1 .. Tests |-> MeasureQuery[1]], Tests) \div Tests,
        hit |-> SumOf([i \in 1 .. Tests |-> MeasureQuery[2]], Tests) \div Tests])

(* ------------------------- write and read path ----------------------- *)

\* Every slot is probed; a probe leaves its name in the cache.  The result
\* counts the slots.
WriteBits(cached, output) ==
    [cache |-> cached \cup SlotNames(output), result |-> Ok(Len(output))]

Contains(bits, tag) == \E i \in DOMAIN bits : bits[i] = tag

\* The loop of read_bits over the classified slots.
RECURSIVE CollectData(_, _, _)
CollectData(bits, i, st) ==
    IF i > Len(bits) THEN st
    ELSE IF bits[i][1] = "Data"
    THEN CollectData(bits, i + 1,
                     [byte |-> SetBit(st.byte, bits[i][2]), parity |-> ~st.parity])
    ELSE CollectData(bits, i + 1, st)

\* A parity check that only misses the Parity slot, never finds one too many.
CheckParityOnlyMissing(bits, st) ==
    IF st.parity /\ ~Contains(bits, Parity) THEN ParityError ELSE Ok(st.byte)

CheckParity(bits, st) ==
    IF (st.parity /\ ~Contains(bits, Parity)) \/ (~st.parity /\ Contains(bits, Parity))
    THEN ParityError
    ELSE Ok(st.byte)

\* A decoder that looks at the Guard before the Reservation.
DecodeBitsGuardFirst(bits) ==
    IF Contains(bits, Guard) THEN Consumed
    ELSE IF ~Contains(bits, Reservation) THEN Free
    ELSE CheckParity(bits, CollectData(bits, 1, [byte |-> 0, parity |-> FALSE]))

\* read_bits after the probes: from the classified slots to the outcome.
DecodeBits(bits) ==
    IF ~Contains(bits, Reservation) THEN Free
    ELSE IF Contains(bits, Guard) THEN Consumed
    ELSE CheckParity(bits, CollectData(bits, 1, [byte |-> 0, parity |-> FALSE]))

\* A slot that is a hit keeps its tag, a miss reads as Decoy.
ClassifyBits(query_times, input, delays) ==
    [i \in DOMAIN input |->
        IF IsHit(query_times, delays[i]) THEN input[i][1] ELSE Decoy]

\* The names of one call are all different, so each probe finds the cache
\* as the call found it.
ReadBits(x, cached, input) ==
    [cache |-> cached \cup SlotNames(input),
     result |-> DecodeBits(ClassifyBits(
                    x.query_times[1], input,
                    [i \in DOMAIN input |-> PokeName(cached, input[i][2])]))]

\* The frame a channel is about to use: its secret and the salt of its
\* primary derivator.
Position(x) == <<x.secret, x.derivator.salt>>

\* The frames a write call has laid out so far.
OutputStart(x) == [x |-> x, output |-> <<>>, frames |-> <<>>]

OutputAppend(st, bo) ==
    [x |-> bo.x, output |-> st.output \o bo.slots,
     frames |-> Append(st.frames, Position(st.x))]

OutputFrame(st, byte, flips) == OutputAppend(st, ByteOutput(st.x, byte, flips))

WriteReturn(st, wb) ==
    [x |-> st.x, cache |-> wb.cache, result |-> wb.result, frames |-> st.frames]

WriteOutput(st, cached) == WriteReturn(st, WriteBits(cached, st.output))

WriteByteCall(x, cached, byte, flips) ==
    WriteOutput(OutputFrame(OutputStart(x), byte, flips), cached)

\* The payload loop of write_bytes over buf[lo..hi], in order.  (The range is
\* walked by halves, left half first, and the state is looked at on entry,
\* so that the left half is worked out before the right half starts.)
RECURSIVE OutputBytes(_, _, _, _, _)
OutputBytes(st, buf, lo, hi, flips) ==
    IF Len(st.frames) < 0 \/ lo > hi THEN st
    ELSE IF lo = hi THEN OutputFrame(st, buf[lo], flips)
    ELSE OutputBytes(OutputBytes(st, buf, lo, (lo + hi) \div 2, flips),
                     buf, ((lo + hi) \div 2) + 1, hi, flips)

Panicked(x, cached) ==
    [x |-> x, cache |-> cached, result |-> Panic, frames |-> <<>>]

\* A write_bytes that sends the payload without the length frame.
WriteBytesNoLength(x, cached, buf, flips) ==
    IF ~(Len(buf) > 0 /\ Len(buf) < 255)
    THEN Panicked(x, cached)
    ELSE WriteOutput(OutputBytes(OutputStart(x), buf, 1, Len(buf), flips), cached)

\* A write_bytes that lays out the length frame before it checks the length.
WriteBytesAssertsLate(x, cached, buf, flips) ==
    IF ~(Len(buf) > 0 /\ Len(buf) < 255)
    THEN Panicked(ByteOutput(x, Len(buf) % 256, flips).x, cached)
    ELSE WriteOutput(
             OutputBytes(OutputFrame(OutputStart(x), Len(buf) % 256, flips),
                         buf, 1, Len(buf), flips),
             cached)

WriteBytesCall(x, cached, buf, flips) ==
    IF ~(Len(buf) > 0 /\ Len(buf) < 255)
    THEN Panicked(x, cached)
    ELSE WriteOutput(
             OutputBytes(OutputFrame(OutputStart(x), Len(buf) % 256, flips),
                         buf, 1, Len(buf), flips),
             cached)

\* The lazy calibration that opens read_byte and read_bytes.
Calibrated(x) ==
    IF x.query_times = None
    THEN [x EXCEPT !.query_times = Some(TestQueryTimeDifferences.val)]
    ELSE x

ReadReturn(x1, bi, rb) ==
    [x |-> bi.x, cache |-> rb.cache, result |-> rb.result,
     frames |-> <<Position(x1)>>]

ReadInput(x1, cached, bi) == ReadReturn(x1, bi, ReadBits(bi.x, cached, bi.slots))

ReadFrame(x1, cached, flips) == ReadInput(x1, cached, ByteInput(x1, flips))

ReadByteCall(x, cached, flips) == ReadFrame(Calibrated(x), cached, flips)

\* The payload of read_bytes: len frames are laid out, then each is read; a
\* frame that fails reads as a space.
InputAppend(st, bi) ==
    [x |-> bi.x, inputs |-> Append(st.inputs, bi.slots),
     frames |-> Append(st.frames, Position(st.x))]

RECURSIVE InputBytes(_, _, _)
InputBytes(st, n, flips) ==
    IF Len(st.frames) < 0 \/ n = 0 THEN st
    ELSE IF n = 1 THEN InputAppend(st, ByteInput(st.x, flips))
    ELSE InputBytes(InputBytes(st, n \div 2, flips), n - (n \div 2), flips)

\* A read_bytes that leaves out the frames that fail.
ReadAppendSkipsErrors(st, rb) ==
    [cache |-> rb.cache,
     buf |-> IF rb.result.kind = "Ok" THEN Append(st.buf, rb.result.val) ELSE st.buf]

ReadAppend(st, rb) ==
    [cache |-> rb.cache,
     buf |-> Append(st.buf, IF rb.result.kind = "Ok" THEN rb.result.val ELSE 32)]

RECURSIVE ReadInputs(_, _, _, _, _)
ReadInputs(x, st, inputs, lo, hi) ==
    IF Len(st.buf) < 0 \/ lo > hi THEN st
    ELSE IF lo = hi THEN ReadAppend(st, ReadBits(x, st.cache, inputs[lo]))
    ELSE ReadInputs(x, ReadInputs(x, st, inputs, lo, (lo + hi) \div 2),
                    inputs, ((lo + hi) \div 2) + 1, hi)

ReadBytesReturn(ib, rd) ==
    [x |-> ib.x, cache |-> rd.cache, result |-> Ok(rd.buf), frames |-> ib.frames]

ReadPayload(len, ib) ==
    ReadBytesReturn(ib, ReadInputs(ib.x, [cache |-> len.cache, buf |-> <<>>],
                                   ib.inputs, 1, Len(ib.inputs)))

\* After the length frame: its error, or the payload it announces.
ReadLength(len, flips) ==
    IF len.result.kind # "Ok" THEN len
    ELSE ReadPayload(len, InputBytes([x |-> len.x, inputs |-> <<>>,
                                      frames |-> len.frames],
                                     len.result.val, flips))

ReadBytesCall(x, cached, flips) ==
    ReadLength(ReadByteCall(Calibrated(x), cached, flips), flips)

(* ------------------------- a failing transport ----------------------- *)

\* What the network does during one call.  `lost` holds the tags of the
\* slots whose probe ends in an error; `reached` says whether the queries of
\* those probes got to the resolver all the same; `down` says the queries of
\* the calibration fail, each after `took` microseconds.
PerfectNet == [lost |-> {}, reached |-> FALSE, down |-> FALSE, took |-> 0]

AllTags == {Reservation, Guard, Parity, Decoy} \cup {Data(i) : i \in 0 .. 7}

Nets ==
    {PerfectNet,
     [lost |-> AllTags, reached |-> FALSE, down |-> TRUE, took |-> MissLatency],
     [lost |-> {Reservation}, reached |-> TRUE, down |-> FALSE, took |-> 0],
     [lost |-> {Data(6)}, reached |-> FALSE, down |-> FALSE, took |-> 0]}

\* poke_name: the error of the connection or of the query, or the elapsed
\* microseconds.
NetPokeName(net, cached, slot) ==
    IF slot[1] \in net.lost THEN IO ELSE Ok(PokeName(cached, slot[2]))

\* The names of the slots whose query got to the resolver.
Asked(net, slots) ==
    {slots[i][2] : i \in {j \in DOMAIN slots : slots[j][1] \notin net.lost \/ net.reached}}

\* measure_query drops the result of both queries and returns the two times,
\* whatever became of the queries.
NetMeasureQuery(net) ==
    Ok(IF net.down THEN <<net.took, net.took>> ELSE MeasureQuery)

\* test_query_time_differences: the first measurement that is an error ends
\* it; else the two averages.
QueryTimesOf(measures) ==
    IF \E i \in DOMAIN measures : measures[i].kind # "Ok"
    THEN IO
    ELSE Ok([miss |-> SumOf([i \in 1 .. Tests |-> measures[i].val[1]], Tests)
                          \div Tests,
             hit |-> SumOf([i \in 1 .. Tests |-> measures[i].val[2]], Tests)
                         \div Tests])

NetTestQueryTimeDifferences(net) ==
    QueryTimesOf([i \in 1 .. Tests |-> NetMeasureQuery(net)])

\* The calibration that opens read_byte and read_bytes: its error is
\* returned as ReadError::IO.
SetQueryTimes(x, tq) ==
    IF tq.kind = "Ok" THEN Ok([x EXCEPT !.query_times = Some(tq.val)]) ELSE IO

\* A calibration that runs at every read.
NetCalibrateAlways(net, x) ==
    SetQueryTimes(x, NetTestQueryTimeDifferences(net))

NetCalibrate(net, x) ==
    IF x.query_times = None
    THEN SetQueryTimes(x, NetTestQueryTimeDifferences(net))
    ELSE Ok(x)

\* A write_bits that counts the probes that were answered.
NetWriteBitsCountsAnswers(net, cached, output) ==
    [cache |-> cached \cup Asked(net, output),
     result |-> Ok(Cardinality({i \in DOMAIN output : output[i][1] \notin net.lost}))]

\* write_bits: the error of a probe is logged and dropped.
NetWriteBits(net, cached, output) ==
    [cache |-> cached \cup Asked(net, output), result |-> Ok(Len(output))]

\* The delay of a probe in read_bits: NaN for a probe that failed.
DelayOf(poked) == IF poked.kind = "Ok" THEN poked.val ELSE NaN

NetReadBits(net, x, cached, input) ==
    [cache |-> cached \cup Asked(net, input),
     result |-> DecodeBits(ClassifyBits(
                    x.query_times[1], input,
                    [i \in DOMAIN input |->
                        DelayOf(NetPokeName(net, cached, input[i]))]))]

NetWriteOutput(net, st, cached) ==
    WriteReturn(st, NetWriteBits(net, cached, st.output))

NetWriteByteCall(net, x, cached, byte, flips) ==
    NetWriteOutput(net, OutputFrame(OutputStart(x), byte, flips), cached)

NetWriteBytesCall(net, x, cached, buf, flips) ==
    IF ~(Len(buf) > 0 /\ Len(buf) < 255)
    THEN Panicked(x, cached)
    ELSE NetWriteOutput(
             net,
             OutputBytes(OutputFrame(OutputStart(x), Len(buf) % 256, flips),
                         buf, 1, Len(buf), flips),
             cached)

NetReadInput(net, x1, cached, bi) ==
    ReadReturn(x1, bi, NetReadBits(net, bi.x, cached, bi.slots))

NetReadFrame(net, x1, cached, flips) ==
    NetReadInput(net, x1, cached, ByteInput(x1, flips))

\* After the calibration: its error, or the frame.
NetReadCalibrated(net, x, cached, flips, cal) ==
    IF cal.kind # "Ok"
    THEN [x |-> x, cache |-> cached, result |-> cal, frames |-> <<>>]
    ELSE NetReadFrame(net, cal.val, cached, flips)

NetReadByteCall(net, x, cached, flips) ==
    NetReadCalibrated(net, x, cached, flips, NetCalibrate(net, x))

RECURSIVE NetReadInputs(_, _, _, _, _, _)
NetReadInputs(net, x, st, inputs, lo, hi) ==
    IF Len(st.buf) < 0 \/ lo > hi THEN st
    ELSE IF lo = hi THEN ReadAppend(st, NetReadBits(net, x, st.cache, inputs[lo]))
    ELSE NetReadInputs(net, x,
                       NetReadInputs(net, x, st, inputs, lo, (lo + hi) \div 2),
                       inputs, ((lo + hi) \div 2) + 1, hi)

NetReadPayload(net, len, ib) ==
    ReadBytesReturn(ib, NetReadInputs(net, ib.x, [cache |-> len.cache, buf |-> <<>>],
                                      ib.inputs, 1, Len(ib.inputs)))

NetReadLength(net, len, flips) ==
    IF len.result.kind # "Ok" THEN len
    ELSE NetReadPayload(net, len,
                        InputBytes([x |-> len.x, inputs |-> <<>>,
                                    frames |-> len.frames],
                                   len.result.val, flips))

\* read_bytes calibrates, and the read_byte of the length frame finds the
\* calibration done.
NetReadBytesCall(net, x, cached, flips) ==
    NetReadLength(net, NetReadByteCall(net, x, cached, flips), flips)

(* ------------------------------- state ------------------------------- *)

VARIABLES
    chan,       \* the Xipology value of every channel
    cache,      \* the names the resolver has cached
    written,    \* history: the frames a write call has targeted
    probed,     \* history: the frames a read call has probed
    stepped,    \* history: frame operations of a channel since from_secret/reset
    last,       \* history: the latest call, its input and what it returned
    calls,      \* history: the number of calls made so far
    scen        \* the scenario being run, if any

vars == <<chan, cache, written, probed, stepped, last, calls, scen>>

Range(f) == {f[i] : i \in DOMAIN f}

\* The buffers write_bytes is called with in the free-running system.
Bufs == {<<>>, <<1>>, <<65>>, <<1, 65>>}

NoCall ==
    [op |-> "none", chan |-> "A", arg |-> 0, result |-> Unit, frames |-> <<>>,
     wasWritten |-> FALSE, wasProbed |-> FALSE, pre |-> None]

\* A scenario: what is fed in, how far it has run and what came back.
NoScenario ==
    [kind |-> "none", input |-> <<>>, prelude |-> FALSE, phase |-> "done",
     sent |-> 0, results |-> <<>>]

Init ==
    /\ chan = [c \in Channels |-> XipologyFromSecret(Server, <<"test">>)]
    /\ cache = {}
    /\ written = {}
    /\ probed = {}
    /\ stepped = [c \in Channels |-> 0]
    /\ last = NoCall
    /\ calls = 0
    /\ scen = NoScenario

\* What a frame call leaves behind: the channel, the cache and the history.
Returns(c, op, arg, r) ==
    /\ chan' = [chan EXCEPT ![c] = r.x]
    /\ cache' = r.cache
    /\ stepped' = [stepped EXCEPT ![c] = @ + Len(r.frames)]
    /\ calls' = calls + 1
    /\ written' = IF op \in {"write_byte", "write_bytes"}
                  THEN written \cup Range(r.frames) ELSE written
    /\ probed' = IF op \in {"read_byte", "read_bytes"}
                 THEN probed \cup Range(r.frames) ELSE probed
    /\ last' = [op |-> op, chan |-> c, arg |-> arg, result |-> r.result,
                frames |-> r.frames,
                wasWritten |-> Position(chan[c]) \in written,
                wasProbed |-> Position(chan[c]) \in probed,
                pre |-> IF r.result = Panic
                        THEN Some([x |-> chan[c], cache |-> cache]) ELSE None]

WriteByte(c, byte) ==
    \E flips \in DecoyFlips :
        Returns(c, "write_byte", byte, WriteByteCall(chan[c], cache, byte, flips))

WriteBytes(c, buf) ==
    \E flips \in DecoyFlips :
        Returns(c, "write_bytes", buf, WriteBytesCall(chan[c], cache, buf, flips))

ReadByte(c) ==
    \E flips \in DecoyFlips :
        Returns(c, "read_byte", 0, ReadByteCall(chan[c], cache, flips))

ReadBytes(c) ==
    \E flips \in DecoyFlips :
        Returns(c, "read_bytes", 0, ReadBytesCall(chan[c], cache, flips))

\* The length frame decides how far read_bytes walks: a call that would walk
\* past MaxFrames is left out before its payload is laid out.
FitsAfter(c, len) ==
    len.result.kind = "Ok" => stepped[c] + 1 + len.result.val <= MaxFrames

ReadBytesFits(c) ==
    \A flips \in DecoyFlips : FitsAfter(c, ReadByteCall(chan[c], cache, flips))

Reset(c) ==
    /\ chan' = [chan EXCEPT ![c] = XipologyReset(chan[c])]
    /\ stepped' = [stepped EXCEPT ![c] = 0]
    /\ calls' = calls + 1
    /\ last' = [NoCall EXCEPT !.op = "reset", !.chan = c, !.arg = chan[c].secret,
                               !.pre = Some([x |-> chan[c], cache |-> cache])]
    /\ UNCHANGED <<cache, written, probed>>

ChangeSecret(c, secret) ==
    /\ chan' = [chan EXCEPT ![c] = XipologyChangeSecret(chan[c], secret)]
    /\ stepped' = [stepped EXCEPT ![c] = 0]
    /\ calls' = calls + 1
    /\ last' = [NoCall EXCEPT !.op = "change_secret", !.chan = c, !.arg = secret,
                               !.pre = Some([x |-> chan[c], cache |-> cache])]
    /\ UNCHANGED <<cache, written, probed>>

\* One call of the free-running system: any channel, any operation.
AnyCall ==
    /\ calls < MaxCalls
    /\ \A c \in Channels : stepped'[c] <= MaxFrames
    /\ UNCHANGED scen

Next ==
    \/ \E c \in Channels, byte \in ByteChoices : WriteByte(c, byte) /\ AnyCall
    \/ \E c \in Channels, buf \in Bufs : WriteBytes(c, buf) /\ AnyCall
    \/ \E c \in Channels : ReadByte(c) /\ AnyCall
    \/ \E c \in Channels : ReadBytesFits(c) /\ ReadBytes(c) /\ AnyCall
    \/ \E c \in Channels : Reset(c) /\ AnyCall
    \/ \E c \in Channels, secret \in Secrets : ChangeSecret(c, secret) /\ AnyCall

Spec == Init /\ [][Next]_vars

(* ------------------------- frames and history ------------------------ *)

\* A channel standing at a frame position.
ChannelAt(pos) ==
    [XipologyFromSecret(Server, pos[1]) EXCEPT !.derivator.salt = pos[2]]

\* The name the reader lays out under `tag` for the frame at `pos`.
SlotOf(input, tag) == input[CHOOSE i \in DOMAIN input : input[i][1] = tag][2]

SlotName(pos, tag) == SlotOf(ByteInput(ChannelAt(pos), 0).slots, tag)

\* The first n names a derivator produces.
RECURSIVE TakeNames(_, _)
TakeNames(nd, n) ==
    IF n = 0 THEN <<>>
    ELSE LET r == NextName(nd) IN <<r.name>> \o TakeNames(r.nd, n - 1)

(* ----------------------------- round trips --------------------------- *)

\* A writer "A" and a reader "B" built from one secret over an empty cache.
\* The writer sends a message byte by byte or a buffer in one write_bytes;
\* the reader reads it back.  In a scenario with a prelude the writer has
\* read a frame before it writes, so it is calibrated and the cache holds
\* names.

\* A buffer of every length, its bytes spread over 0..255.
Pattern(n) == [i \in 1 .. n |-> (i * 37 + n) % 256]

Messages ==
    {<<b>> : b \in Byte} \cup UNION {[1 .. n -> ByteChoices] : n \in 2 .. MaxMsgLen}

Buffers == {Pattern(n) : n \in 0 .. MaxBufLen} \cup {<<b>> : b \in Byte}

Scenarios ==
    {[NoScenario EXCEPT !.kind = "bytes", !.input = m, !.phase = "write"] :
        m \in Messages}
    \cup {[NoScenario EXCEPT !.kind = "buf", !.input = b, !.prelude = TRUE,
                             !.phase = "prelude"] : b \in Buffers}
    \cup {[NoScenario EXCEPT !.kind = "buf", !.input = b, !.phase = "write"] :
        b \in Buffers}

InitRT ==
    /\ \E secret \in Secrets :
           chan = [c \in Channels |-> XipologyFromSecret(Server, secret)]
    /\ cache = {}
    /\ written = {}
    /\ probed = {}
    /\ stepped = [c \in Channels |-> 0]
    /\ last = NoCall
    /\ calls = 0
    /\ scen \in Scenarios

RTPrelude ==
    /\ scen.phase = "prelude"
    /\ ReadByte("A")
    /\ scen' = [scen EXCEPT !.phase = "write"]

RTWriteByte ==
    /\ scen.kind = "bytes"
    /\ scen.sent < Len(scen.input)
    /\ WriteByte("A", scen.input[scen.sent + 1])
    /\ scen' = [scen EXCEPT !.sent = @ + 1]

\* The reader reads a frame once the writer has written it.
RTReadByte ==
    /\ scen.kind = "bytes"
    /\ Len(scen.results) < scen.sent
    /\ ReadByte("B")
    /\ scen' = [scen EXCEPT
                   !.results = Append(@, last'.result),
                   !.phase = IF Len(scen.results) + 1 = Len(scen.input)
                             THEN "done" ELSE @]

\* A write_bytes that panics ends the scenario.
RTWriteBytes ==
    /\ scen.kind = "buf"
    /\ scen.phase = "write"
    /\ WriteBytes("A", scen.input)
    /\ scen' = [scen EXCEPT
                   !.phase = IF last'.result = Panic THEN "done" ELSE "read"]

RTReadBytes ==
    /\ scen.kind = "buf"
    /\ scen.phase = "read"
    /\ ReadBytes("B")
    /\ scen' = [scen EXCEPT !.phase = "done", !.results = <<last'.result>>]

NextRT ==
    \/ RTPrelude
    \/ RTWriteByte
    \/ RTReadByte
    \/ RTWriteBytes
    \/ RTReadBytes

SpecRT == InitRT /\ [][NextRT]_vars

(* ------------------- calls over a failing transport ------------------ *)

\* Two channels of one secret; every call meets one of the networks of
\* Nets.  The scenario keeps what the call found: the network, the cache
\* and the channel.
NetBytes == {1, 65}
NetBufs == {<<>>, <<1, 65>>}

Met(net, c) ==
    [NoScenario EXCEPT !.kind = "net",
                       !.input = [net |-> net, cache |-> cache, x |-> chan[c]]]

InitNet ==
    /\ chan = [c \in Channels |-> XipologyFromSecret(Server, <<"test">>)]
    /\ cache = {}
    /\ written = {}
    /\ probed = {}
    /\ stepped = [c \in Channels |-> 0]
    /\ last = NoCall
    /\ calls = 0
    /\ scen = Met(PerfectNet, "A")

NetWriteByte(c, byte, net) ==
    /\ \E flips \in DecoyFlips :
           Returns(c, "write_byte", byte,
                   NetWriteByteCall(net, chan[c], cache, byte, flips))
    /\ scen' = Met(net, c)

NetWriteBytes(c, buf, net) ==
    /\ \E flips \in DecoyFlips :
           Returns(c, "write_bytes", buf,
                   NetWriteBytesCall(net, chan[c], cache, buf, flips))
    /\ scen' = Met(net, c)

NetReadByte(c, net) ==
    /\ \E flips \in DecoyFlips :
           Returns(c, "read_byte", 0, NetReadByteCall(net, chan[c], cache, flips))
    /\ scen' = Met(net, c)

NetReadBytes(c, net) ==
    /\ \E flips \in DecoyFlips :
           Returns(c, "read_bytes", 0, NetReadBytesCall(net, chan[c], cache, flips))
    /\ scen' = Met(net, c)

NetReset(c) ==
    /\ Reset(c)
    /\ scen' = Met(PerfectNet, c)

NetChangeSecret(c, secret) ==
    /\ ChangeSecret(c, secret)
    /\ scen' = Met(PerfectNet, c)

NextNet ==
    \/ \E c \in Channels, byte \in NetBytes, net \in Nets :
           calls < MaxNetCalls /\ NetWriteByte(c, byte, net)
    \/ \E c \in Channels, buf \in NetBufs, net \in Nets :
           calls < MaxNetCalls /\ NetWriteBytes(c, buf, net)
    \/ \E c \in Channels, net \in Nets : calls < MaxNetCalls /\ NetReadByte(c, net)
    \/ \E c \in Channels, net \in Nets : calls < MaxNetCalls /\ NetReadBytes(c, net)
    \/ \E c \in Channels : calls < MaxNetCalls /\ NetReset(c)
    \/ \E c \in Channels, secret \in Secrets :
           calls < MaxNetCalls /\ NetChangeSecret(c, secret)

SpecNet == InitNet /\ [][NextNet]_vars

(* ------------------------- a frame that is altered ------------------- *)

\* The writer writes one byte; the resolver then answers the other way for
\* some of the nine Data and Parity names of the frame (a cached name
\* is dropped, a name that was not cached has been asked for by somebody
\* else); the reader reads the frame.
PayloadTags == {Data(i) : i \in 0 .. 7} \cup {Parity}

InitFlip ==
    /\ chan = [c \in Channels |-> XipologyFromSecret(Server, <<"test">>)]
    /\ cache = {}
    /\ written = {}
    /\ probed = {}
    /\ stepped = [c \in Channels |-> 0]
    /\ last = NoCall
    /\ calls = 0
    /\ \E byte \in Byte :
           scen = [NoScenario EXCEPT !.kind = "flip", !.phase = "write",
                                     !.input = [byte |-> byte, flipped |-> {}]]

FlipWrite ==
    /\ scen.kind = "flip"
    /\ scen.phase = "write"
    /\ WriteByte("A", scen.input.byte)
    /\ scen' = [scen EXCEPT !.phase = "flip"]

\* The names of `tags` change sides in the cache.
Flipped(cached, names) == (cached \ names) \cup (names \ cached)

FlipSlots(tags) ==
    /\ scen.kind = "flip"
    /\ scen.phase = "flip"
    /\ cache' = Flipped(cache, {SlotName(last.frames[1], tag) : tag \in tags})
    /\ scen' = [scen EXCEPT !.phase = "read", !.input.flipped = tags]
    /\ UNCHANGED <<chan, written, probed, stepped, last, calls>>

FlipRead ==
    /\ scen.kind = "flip"
    /\ scen.phase = "read"
    /\ ReadByte("B")
    /\ scen' = [scen EXCEPT !.phase = "done"]

NextFlip ==
    \/ FlipWrite
    \/ \E tags \in SUBSET PayloadTags : FlipSlots(tags)
    \/ FlipRead

SpecFlip == InitFlip /\ [][NextFlip]_vars

(* ---------------------------- the classifier ------------------------- *)

\* read_bits over probes whose delays are given: a delay of NaN is a probe
\* that failed.
TimedReadBits(x, cached, input, delays) ==
    [cache |-> cached \cup {input[i][2] : i \in {j \in DOMAIN input : delays[j] # NaN}},
     result |-> DecodeBits(ClassifyBits(x.query_times[1], input, delays))]

\* The Reservation probe takes `delay`; every other probe fails.
ReservationDelays(input, delay) ==
    [i \in DOMAIN input |-> IF input[i][1] = Reservation THEN delay ELSE NaN]

TimedRead(x, cached, bi, delay) ==
    ReadReturn(x, bi, TimedReadBits(bi.x, cached, bi.slots,
                                    ReservationDelays(bi.slots, delay)))

\* A channel calibrated to any pair of averages reads a frame whose
\* Reservation probe takes any time, or fails.
Latencies == 0 .. MaxLatency

InitClassify ==
    /\ \E hit \in Latencies, miss \in Latencies :
           /\ chan = [c \in Channels |->
                         [XipologyFromSecret(Server, <<"test">>) EXCEPT
                             !.query_times = Some([miss |-> miss, hit |-> hit])]]
           /\ scen = [NoScenario EXCEPT !.kind = "classify", !.phase = "read",
                                        !.input = [miss |-> miss, hit |-> hit]]
    /\ cache = {}
    /\ written = {}
    /\ probed = {}
    /\ stepped = [c \in Channels |-> 0]
    /\ last = NoCall
    /\ calls = 0

ClassifyProbe(delay) ==
    /\ scen.kind = "classify"
    /\ scen.phase = "read"
    /\ Returns("A", "read_bits", delay,
               TimedRead(chan["A"], cache, ByteInput(chan["A"], 0), delay))
    /\ scen' = [scen EXCEPT !.phase = "done"]

NextClassify == \E delay \in Latencies \cup {NaN} : ClassifyProbe(delay)

SpecClassify == InitClassify /\ [][NextClassify]_vars

(* --------------------------- the probe fan-out ----------------------- *)

\* A call taken apart: it lays out its slots and hands them to par_iter,
\* the probes complete one by one in any order, and the call goes on past
\* the par_iter when all of them have.  "A" writes and "B" reads.  The
\* scenario keeps the fan-out of each channel: the lists handed over
\* (`inputs`, in the order they were handed over), the probes not completed
\* yet and the delays measured.
NoFanOut ==
    [running |-> FALSE, op |-> "none", stage |-> "none", arg |-> 0,
     inputs |-> <<>>, pending |-> {}, delays |-> <<>>, frames |-> <<>>,
     result |-> Unit]

Probes(inputs) ==
    UNION {{<<f, i>> : i \in DOMAIN inputs[f]} : f \in DOMAIN inputs}

FanOut(op, stage, arg, inputs, frames) ==
    [running |-> TRUE, op |-> op, stage |-> stage, arg |-> arg,
     inputs |-> inputs, pending |-> Probes(inputs),
     delays |-> [f \in DOMAIN inputs |-> [i \in DOMAIN inputs[f] |-> NaN]],
     frames |-> frames, result |-> Unit]

\* A parallel iterator that hands back at once, its probes still running.
JoinedAtOnce(call) == TRUE

\* par_iter().for_each() and par_iter().map().collect() come back when every
\* item has been worked on.
Joined(call) == call.pending = {}

ProbeBufs == {<<>>, <<1>>, <<65>>}

InitProbe ==
    /\ chan = [c \in Channels |-> XipologyFromSecret(Server, <<"test">>)]
    /\ cache = {}
    /\ written = {}
    /\ probed = {}
    /\ stepped = [c \in Channels |-> 0]
    /\ last = NoCall
    /\ calls = 0
    /\ scen = [NoScenario EXCEPT !.kind = "probe",
                                 !.input = [c \in Channels |-> NoFanOut]]

\* A call starts when no call is running.
CallStarts ==
    /\ calls < MaxProbeCalls
    /\ \A c \in Channels : ~scen.input[c].running

Dispatched(c, x, call, isWrite) ==
    /\ chan' = [chan EXCEPT ![c] = x]
    /\ scen' = [scen EXCEPT !.input[c] = call]
    /\ stepped' = [stepped EXCEPT ![c] = @ + Len(call.frames)]
    /\ written' = IF isWrite THEN written \cup Range(call.frames) ELSE written
    /\ probed' = IF isWrite THEN probed ELSE probed \cup Range(call.frames)

DispatchedOutput(c, op, arg, st) ==
    /\ Dispatched(c, st.x, FanOut(op, "write", arg, <<st.output>>, st.frames), TRUE)
    /\ calls' = calls + 1
    /\ UNCHANGED <<cache, last>>

DispatchedInput(c, op, stage, x1, bi) ==
    /\ Dispatched(c, bi.x, FanOut(op, stage, 0, <<bi.slots>>, <<Position(x1)>>), FALSE)
    /\ calls' = calls + 1
    /\ UNCHANGED <<cache, last>>

ProbePanicked(c, op, arg) ==
    /\ last' = [NoCall EXCEPT !.op = op, !.chan = c, !.arg = arg, !.result = Panic]
    /\ calls' = calls + 1
    /\ UNCHANGED <<chan, cache, written, probed, stepped, scen>>

ProbeWriteByte(c, byte) ==
    /\ CallStarts
    /\ \E flips \in DecoyFlips :
           DispatchedOutput(c, "write_byte", byte,
                            OutputFrame(OutputStart(chan[c]), byte, flips))

ProbeWriteBytes(c, buf) ==
    /\ CallStarts
    /\ IF ~(Len(buf) > 0 /\ Len(buf) < 255)
       THEN ProbePanicked(c, "write_bytes", buf)
       ELSE \E flips \in DecoyFlips :
                DispatchedOutput(
                    c, "write_bytes", buf,
                    OutputBytes(OutputFrame(OutputStart(chan[c]), Len(buf) % 256, flips),
                                buf, 1, Len(buf), flips))

ProbeReadByte(c) ==
    /\ CallStarts
    /\ \E flips \in DecoyFlips :
           DispatchedInput(c, "read_byte", "frame", Calibrated(chan[c]),
                           ByteInput(Calibrated(chan[c]), flips))

ProbeReadBytes(c) ==
    /\ CallStarts
    /\ \E flips \in DecoyFlips :
           DispatchedInput(c, "read_bytes", "length", Calibrated(chan[c]),
                           ByteInput(Calibrated(chan[c]), flips))

\* A resolver that forgets the name it was asked for.
ProbeDoneUncached(c, p) ==
    /\ p \in scen.input[c].pending
    /\ cache' = cache
    /\ scen' = [scen EXCEPT
                   !.input[c].pending = @ \ {p},
                   !.input[c].delays[p[1]][p[2]] =
                       PokeName(cache, scen.input[c].inputs[p[1]][p[2]][2])]
    /\ UNCHANGED <<chan, written, probed, stepped, last, calls>>

\* One probe completes: the resolver has the name from now on.
ProbeDone(c, p) ==
    /\ p \in scen.input[c].pending
    /\ cache' = cache \cup {scen.input[c].inputs[p[1]][p[2]][2]}
    /\ scen' = [scen EXCEPT
                   !.input[c].pending = @ \ {p},
                   !.input[c].delays[p[1]][p[2]] =
                       PokeName(cache, scen.input[c].inputs[p[1]][p[2]][2])]
    /\ UNCHANGED <<chan, written, probed, stepped, last, calls>>

DecodeFrame(x, call, f) ==
    DecodeBits(ClassifyBits(x.query_times[1], call.inputs[f], call.delays[f]))

ByteOrSpace(r) == IF r.kind = "Ok" THEN r.val ELSE 32

Returned(c, call, result) ==
    /\ last' = [NoCall EXCEPT !.op = call.op, !.chan = c, !.arg = call.arg,
                              !.result = result, !.frames = call.frames]
    /\ scen' = [scen EXCEPT !.input[c].running = FALSE,
                            !.input[c].result = result]
    /\ UNCHANGED <<chan, cache, written, probed, stepped, calls>>

DispatchedPayload(c, ib) ==
    /\ Dispatched(c, ib.x, FanOut("read_bytes", "payload", 0, ib.inputs, ib.frames),
                  FALSE)
    /\ UNCHANGED <<cache, last, calls>>

\* read_bytes past the length frame: its error, or the fan-out of the payload.
JoinLength(c, call, len) ==
    IF len.kind # "Ok" THEN Returned(c, call, len)
    ELSE /\ len.val <= MaxProbeFrames
         /\ \E flips \in DecoyFlips :
                DispatchedPayload(c, InputBytes([x |-> chan[c], inputs |-> <<>>,
                                                 frames |-> <<>>],
                                                len.val, flips))

\* The call goes on past its par_iter.
ProbeJoin(c) ==
    /\ scen.input[c].running
    /\ Joined(scen.input[c])
    /\ CASE scen.input[c].stage = "write" ->
                Returned(c, scen.input[c], Ok(Len(scen.input[c].inputs[1])))
         [] scen.input[c].stage = "frame" ->
                Returned(c, scen.input[c], DecodeFrame(chan[c], scen.input[c], 1))
         [] scen.input[c].stage = "length" ->
                JoinLength(c, scen.input[c], DecodeFrame(chan[c], scen.input[c], 1))
         [] scen.input[c].stage = "payload" ->
                Returned(c, scen.input[c],
                         Ok([f \in DOMAIN scen.input[c].inputs |->
                                ByteOrSpace(DecodeFrame(chan[c], scen.input[c], f))]))

NextProbe ==
    \/ \E byte \in ByteChoices : ProbeWriteByte("A", byte)
    \/ \E buf \in ProbeBufs : ProbeWriteBytes("A", buf)
    \/ ProbeReadByte("B")
    \/ ProbeReadBytes("B")
    \/ \E c \in Channels : \E p \in scen.input[c].pending : ProbeDone(c, p)
    \/ \E c \in Channels : ProbeJoin(c)

SpecProbe == InitProbe /\ [][NextProbe]_vars

(* ------------------------------ racing calls ------------------------- *)

\* Two calls on one frame at once: a writer and a reader ("rw"), or two
\* readers of a frame written before ("rr").  The probes of a fan-out are
\* shared out to its worker threads in contiguous parts of the list; a
\* worker takes its part in order and the workers run in any order.

\* The part of a list of n slots that the slot at position i belongs to.
ShareOf(i, n) == ((i - 1) * Workers) \div n

\* Probe p is the next one of its worker.
InTurn(call, p) ==
    \A q \in call.pending :
        (/\ q[1] = p[1]
         /\ ShareOf(q[2], Len(call.inputs[q[1]])) =
                ShareOf(p[2], Len(call.inputs[p[1]]))) => q[2] >= p[2]

RaceBytes == {0, 1, 7, 65}

\* scen.phase is the kind of race and scen.sent the byte of the frame.
InitRace ==
    /\ chan = [c \in Channels |-> XipologyFromSecret(Server, <<"test">>)]
    /\ probed = {}
    /\ stepped = [c \in Channels |-> 0]
    /\ last = NoCall
    /\ calls = 0
    /\ \E byte \in RaceBytes : \E phase \in {"rw", "rr"} : \E flips \in DecoyFlips :
           /\ scen = [NoScenario EXCEPT !.kind = "race", !.phase = phase,
                                        !.sent = byte,
                                        !.input = [c \in Channels |-> NoFanOut]]
           /\ cache = IF phase = "rr"
                      THEN SlotNames(ByteOutput(XipologyFromSecret(Server, <<"test">>),
                                                byte, flips).slots)
                      ELSE {}
           /\ written = IF phase = "rr"
                        THEN {Position(XipologyFromSecret(Server, <<"test">>))}
                        ELSE {}

RaceWriteByte(c) ==
    /\ scen.phase = "rw"
    /\ c = "A"
    /\ scen.input[c].op = "none"
    /\ \E flips \in DecoyFlips :
           DispatchedOutput(c, "write_byte", scen.sent,
                            OutputFrame(OutputStart(chan[c]), scen.sent, flips))

RaceReadByte(c) ==
    /\ scen.phase = "rr" \/ c = "B"
    /\ scen.input[c].op = "none"
    /\ \E flips \in DecoyFlips :
           DispatchedInput(c, "read_byte", "frame", Calibrated(chan[c]),
                           ByteInput(Calibrated(chan[c]), flips))

RaceDone(c, p) ==
    /\ InTurn(scen.input[c], p)
    /\ ProbeDone(c, p)

NextRace ==
    \/ \E c \in Channels : RaceWriteByte(c)
    \/ \E c \in Channels : RaceReadByte(c)
    \/ \E c \in Channels : \E p \in scen.input[c].pending : RaceDone(c, p)
    \/ \E c \in Channels : ProbeJoin(c)

SpecRace == InitRace /\ [][NextRace]_vars

(* ----------------------- the rendezvous SecretGen -------------------- *)

\* i64 division rounds towards zero.
TruncDiv(a, b) == IF a >= 0 THEN a \div b ELSE 0 - ((0 - a) \div b)

DigitChars == <<"0", "1", "2", "3", "4", "5", "6", "7", "8", "9">>

\* format!("{}", n) of a number that is not negative: its decimal digits.
RECURSIVE Decimal(_)
Decimal(n) ==
    IF n < 10 THEN <<DigitChars[n + 1]>>
    ELSE Decimal(n \div 10) \o <<DigitChars[(n % 10) + 1]>>

\* SecretGen::get_time at second `epoch` of the clock.
GetTime(epoch) == Decimal(TruncDiv(epoch, WindowMinutes * 60))

\* format!("{}-{}-{}", secret, time, counter)
FormatSecret(secret, time, counter) ==
    <<secret>> \o <<"-">> \o time \o <<"-">> \o Decimal(counter)

BaseSecret == "rendezvous"

SecretGenFrom(secret, epoch) ==
    [secret |-> secret, used_time |-> GetTime(epoch), counter |-> 0]

\* The window of the generator as of `time`.
SecretGenAt(gen, time) ==
    IF time # gen.used_time
    THEN [gen EXCEPT !.counter = 0, !.used_time = time]
    ELSE gen

\* A generator that counts the call before it names the secret.
SecretGenStepCountsFirst(gen, time) ==
    [gen |-> [gen EXCEPT !.counter = @ + 1],
     out |-> FormatSecret(gen.secret, time, gen.counter + 1)]

SecretGenStep(gen, time) ==
    [gen |-> [gen EXCEPT !.counter = @ + 1],
     out |-> FormatSecret(gen.secret, time, gen.counter)]

\* SecretGen::secret at second `epoch`: the generator after the call and
\* the secret returned.
SecretGenSecret(gen, epoch) ==
    SecretGenStep(SecretGenAt(gen, GetTime(epoch)), GetTime(epoch))

\* The generator is made at one of these seconds; the clock then moves on
\* by one of the steps.
StartEpochs == {0, 299, 300}
ClockSteps == {100, 200, 300}

\* scen.input is the generator, scen.sent the clock and scen.results the
\* calls made so far: the second of each and the secret it returned.
InitGen ==
    /\ chan = [c \in Channels |-> XipologyFromSecret(Server, <<BaseSecret>>)]
    /\ cache = {}
    /\ written = {}
    /\ probed = {}
    /\ stepped = [c \in Channels |-> 0]
    /\ last = NoCall
    /\ calls = 0
    /\ \E epoch \in StartEpochs :
           scen = [NoScenario EXCEPT !.kind = "gen",
                                     !.input = SecretGenFrom(BaseSecret, epoch),
                                     !.sent = epoch]

GenTick(step) ==
    /\ scen.sent + step <= MaxEpoch
    /\ scen' = [scen EXCEPT !.sent = @ + step]
    /\ UNCHANGED <<chan, cache, written, probed, stepped, last, calls>>

GenReturns(r) ==
    /\ scen' = [scen EXCEPT !.input = r.gen,
                            !.results = Append(@, [at |-> scen.sent, out |-> r.out])]
    /\ last' = [NoCall EXCEPT !.op = "secret", !.result = Ok(r.out)]
    /\ calls' = calls + 1
    /\ UNCHANGED <<chan, cache, written, probed, stepped>>

GenSecret ==
    /\ calls < MaxSecrets
    /\ GenReturns(SecretGenSecret(scen.input, scen.sent))

NextGen ==
    \/ \E step \in ClockSteps : GenTick(step)
    \/ GenSecret

SpecGen == InitGen /\ [][NextGen]_vars

(* --------------------------- the rendezvous loop --------------------- *)

\* Two participants run the loop of rendezvous/main.rs against one resolver
\* and one clock.  scen.sent is the clock and scen.input[c] the participant
\* on channel c: its generator, its encounters, where it is in the loop
\* ("read", or "write" after a Free), the second its sleep ends, and what it
\* has read and written so far: the secrets read, and the pairs of a secret
\* and the bytes written under it.

\* The <nick> argument of the participant.
Nick(c) == IF c = "A" THEN <<65>> ELSE <<66>>

\* join(", ")
RECURSIVE JoinNicks(_)
JoinNicks(list) ==
    IF list = <<>> THEN <<>>
    ELSE IF Len(list) = 1 THEN list[1]
    ELSE list[1] \o <<44, 32>> \o JoinNicks(Tail(list))

\* The orders a HashSet may be iterated in.
IterationOrders(set) ==
    {o \in [1 .. Cardinality(set) -> set] :
        \A i \in DOMAIN o : \A j \in DOMAIN o : i # j => o[i] # o[j]}

\* encode_nicks: the byte strings it may return.
EncodeNicks(nicks) == {JoinNicks(o) : o \in IterationOrders(nicks)}

\* split(','): the pieces of the bytes from position i on, `piece` being the
\* piece gathered so far.
RECURSIVE SplitNicks(_, _, _)
SplitNicks(buf, i, piece) ==
    IF i > Len(buf) THEN {piece}
    ELSE IF buf[i] = 44 THEN {piece} \cup SplitNicks(buf, i + 1, <<>>)
    ELSE SplitNicks(buf, i + 1, Append(piece, buf[i]))

\* str::trim of a string whose only white space is the space.
RECURSIVE Trim(_)
Trim(str) ==
    IF str = <<>> THEN str
    ELSE IF Head(str) = 32 THEN Trim(Tail(str))
    ELSE IF str[Len(str)] = 32 THEN Trim(SubSeq(str, 1, Len(str) - 1))
    ELSE str

\* decode_nicks
DecodeNicks(buf) == {Trim(piece) : piece \in SplitNicks(buf, 1, <<>>)}

\* str::from_utf8 accepts the bytes (ASCII is all the model writes).
IsUtf8(buf) == \A i \in DOMAIN buf : buf[i] < 128

\* The loop after read_bytes has returned.
AfterRead(part, result) ==
    [part EXCEPT
        !.encounters =
            IF result.kind = "Ok"
            THEN IF IsUtf8(result.val) THEN @ \cup DecodeNicks(result.val) ELSE @
            ELSE IF result \in {Free, Consumed} THEN @
            ELSE {},
        !.pc = IF result = Free THEN "write" ELSE "read"]

\* A participant that scribbles where it has just read.
RdvWritePointReused(gen, epoch) ==
    [gen |-> gen,
     out |-> FormatSecret(gen.secret, gen.used_time, gen.counter - 1)]

\* xipo.change_secret(secret.secret()) of the Free branch.
RdvWritePoint(gen, epoch) == SecretGenSecret(gen, epoch)

\* rng.gen_range(55, 65) at its ends.
Sleeps == {55, 64}
RdvStarts == {0, 200}
RdvSteps == {100}

InitRdv ==
    /\ chan = [c \in Channels |-> XipologyFromSecret(Server, <<BaseSecret>>)]
    /\ cache = {}
    /\ written = {}
    /\ probed = {}
    /\ stepped = [c \in Channels |-> 0]
    /\ last = NoCall
    /\ calls = 0
    /\ \E epoch \in RdvStarts :
           scen = [NoScenario EXCEPT
                      !.kind = "rdv",
                      !.sent = epoch,
                      !.input = [c \in Channels |->
                                    [gen |-> SecretGenFrom(BaseSecret, epoch),
                                     encounters |-> {}, pc |-> "read",
                                     wake |-> 0, reads |-> {}, wrote |-> {}]]]

RdvTick(step) ==
    /\ scen.sent + step <= MaxRdvEpoch
    /\ scen' = [scen EXCEPT !.sent = @ + step]
    /\ UNCHANGED <<chan, cache, written, probed, stepped, last, calls>>

RdvCalled(c, op, r, cl) ==
    /\ chan' = [chan EXCEPT ![c] = cl.x]
    /\ cache' = cl.cache
    /\ last' = [NoCall EXCEPT !.op = op, !.chan = c, !.arg = r.out,
                              !.result = cl.result, !.frames = cl.frames]
    /\ stepped' = [stepped EXCEPT ![c] = Len(cl.frames)]
    /\ calls' = calls + 1

RdvReadDone(c, r, rd) ==
    /\ RdvCalled(c, "read_bytes", r, rd)
    /\ probed' = probed \cup Range(rd.frames)
    /\ scen' = [scen EXCEPT
                   !.input[c] = AfterRead([@ EXCEPT !.gen = r.gen,
                                                    !.reads = @ \cup {r.out}],
                                          rd.result)]
    /\ UNCHANGED written

RdvReadAt(c, r) ==
    \E flips \in DecoyFlips :
        RdvReadDone(c, r, ReadBytesCall(XipologyChangeSecret(chan[c], r.out),
                                        cache, flips))

\* One turn of the loop up to the match on the result of read_bytes.
RdvRead(c) ==
    /\ calls < MaxRdvCalls
    /\ scen.input[c].pc = "read"
    /\ scen.sent >= scen.input[c].wake
    /\ RdvReadAt(c, SecretGenSecret(scen.input[c].gen, scen.sent))

RdvWriteDone(c, r, buf, wr, sleep) ==
    /\ RdvCalled(c, "write_bytes", r, wr)
    /\ written' = written \cup Range(wr.frames)
    /\ scen' = [scen EXCEPT
                   !.input[c] = [@ EXCEPT !.gen = r.gen,
                                          !.encounters = {},
                                          !.pc = "read",
                                          !.wake = scen.sent + sleep,
                                          !.wrote = @ \cup {<<r.out, buf>>}]]
    /\ UNCHANGED probed

RdvWriteAt(c, r) ==
    \E buf \in EncodeNicks(scen.input[c].encounters \cup {Nick(c)}) :
        \E flips \in DecoyFlips : \E sleep \in Sleeps :
            RdvWriteDone(c, r, buf,
                         WriteBytesCall(XipologyChangeSecret(chan[c], r.out),
                                        cache, buf, flips),
                         sleep)

\* The Free branch: the nicks are written at the next point, then the
\* participant sleeps and forgets its encounters.
RdvWrite(c) ==
    /\ calls < MaxRdvCalls
    /\ scen.input[c].pc = "write"
    /\ RdvWriteAt(c, RdvWritePoint(scen.input[c].gen, scen.sent))

NextRdv ==
    \/ \E step \in RdvSteps : RdvTick(step)
    \/ \E c \in Channels : RdvRead(c)
    \/ \E c \in Channels : RdvWrite(c)

SpecRdv == InitRdv /\ [][NextRdv]_vars

(* ------------------------------ the codec ---------------------------- *)

\* byte_output and read_bits as functions of their inputs.  A channel stands
\* at a frame; byte_output is applied to every byte, and read_bits to the
\* slots of the frame and MaxDecoys decoy slots over every cache the
\* resolver can hold of their names.

\* A channel that has walked p frames since its construction.
RECURSIVE AfterFrames(_, _)
AfterFrames(x, p) ==
    IF p = 0 THEN x ELSE AfterFrames(ByteInput(x, 0).x, p - 1)

WithDecoySlots(bi, dst) == [bi EXCEPT !.slots = @ \o dst.slots]

\* The input of read_bits: the eleven slots of the frame, then the decoys.
CodecInput(x) ==
    WithDecoySlots(ByteInput(x, 0), DecoySlots(FrameStart(x.decoy), MaxDecoys, 0))

InitCodec ==
    /\ \E secret \in Secrets, p \in 0 .. MaxFrames :
           chan = [c \in Channels |->
                      Calibrated(AfterFrames(XipologyFromSecret(Server, secret), p))]
    /\ \/ /\ cache \in SUBSET SlotNames(CodecInput(chan["A"]).slots)
          /\ scen = [NoScenario EXCEPT !.kind = "input", !.input = cache,
                                       !.phase = "read"]
       \/ /\ cache = {}
          /\ scen = [NoScenario EXCEPT !.kind = "output", !.phase = "write"]
    /\ written = {}
    /\ probed = {}
    /\ stepped = [c \in Channels |-> 0]
    /\ last = NoCall
    /\ calls = 0

OutputReturn(x, cached, bo) ==
    [x |-> bo.x, cache |-> cached, result |-> Ok(bo.slots),
     frames |-> <<Position(x)>>]

\* byte_output alone: the slots are handed back, nothing is probed.
ByteOutputCall(x, cached, byte, flips) ==
    OutputReturn(x, cached, ByteOutput(x, byte, flips))

CodecByteOutput ==
    /\ scen.kind = "output"
    /\ scen.phase = "write"
    /\ \E byte \in Byte, flips \in DecoyFlips :
           Returns("A", "byte_output", byte,
                   ByteOutputCall(chan["A"], cache, byte, flips))
    /\ scen' = [scen EXCEPT !.phase = "done"]

CodecReadBits ==
    /\ scen.kind = "input"
    /\ scen.phase = "read"
    /\ Returns("A", "read_bits", CodecInput(chan["A"]).slots,
               ReadInput(chan["A"], cache, CodecInput(chan["A"])))
    /\ scen' = [scen EXCEPT !.phase = "done"]

NextCodec ==
    \/ CodecByteOutput
    \/ CodecReadBits

SpecCodec == InitCodec /\ [][NextCodec]_vars

(* --------------------------------------------------------------------- *)
(* C1: over an empty, perfectly caching resolver, the i-th read_byte of a *)
(* fresh reader returns Ok of the i-th byte a fresh writer of the same    *)
(* secret wrote with write_byte, for every byte and every secret.         *)
(* --------------------------------------------------------------------- *)
C1_ByteRoundTrip ==
    scen.kind = "bytes" =>
        /\ Len(scen.results) <= scen.sent
        /\ \A i \in 1 .. Len(scen.results) : scen.results[i] = Ok(scen.input[i])

\* A message of several different bytes has been written and read back.
C1_Witness ==
    /\ scen.kind = "bytes" /\ scen.phase = "done"
    /\ Len(scen.input) >= 2 /\ scen.input[1] # scen.input[2]
    /\ Len(scen.results) = Len(scen.input)
    /\ last.op = "read_byte" /\ last.result = Ok(scen.input[Len(scen.input)])

(* --------------------------------------------------------------------- *)
(* C2: over an empty, perfectly caching resolver, read_bytes of a fresh   *)
(* reader returns Ok(buf) after a fresh writer of the same secret called  *)
(* write_bytes(buf), for every length of buf from 1 to 254.               *)
(* --------------------------------------------------------------------- *)
C2_BytesRoundTrip ==
    (/\ scen.kind = "buf" /\ ~scen.prelude /\ scen.phase = "done"
     /\ Len(scen.input) >= 1 /\ Len(scen.input) <= 254)
        => /\ last.op = "read_bytes"
           /\ last.result.kind = "Ok"
           /\ Len(last.result.val) = Len(scen.input)
           /\ last.result.val = scen.input
           /\ scen.results = <<Ok(scen.input)>>

\* The longest buffer has made the round trip.
C2_Witness ==
    /\ scen.kind = "buf" /\ ~scen.prelude /\ scen.phase = "done"
    /\ Len(scen.input) = 254
    /\ last.op = "read_bytes" /\ last.result = Ok(scen.input)

(* --------------------------------------------------------------------- *)
(* C3 (as stated): a read_byte of a frame that no write has targeted      *)
(* returns Err(Free), whatever reads and writes came before.              *)
(* --------------------------------------------------------------------- *)
C3_FreeIfNeverWritten ==
    (last.op = "read_byte" /\ ~last.wasWritten) => last.result = Free

(* --------------------------------------------------------------------- *)
(* C3 (amended): a read_byte of a frame that no write has targeted and no *)
(* earlier read has probed returns Err(Free).                             *)
(* --------------------------------------------------------------------- *)
C3_FreeIfNeverTouched ==
    (last.op = "read_byte" /\ ~last.wasWritten /\ ~last.wasProbed)
        => last.result = Free

\* An untouched frame is read while other frames are written and probed.
C3_Witness ==
    /\ last.op = "read_byte" /\ ~last.wasWritten /\ ~last.wasProbed
    /\ last.result = Free
    /\ written # {}
    /\ Cardinality(probed) >= 2

(* --------------------------------------------------------------------- *)
(* C4: once a read has probed a frame, every later read_byte of that      *)
(* frame returns Err(Consumed), whether the frame was ever written or not.*)
(* --------------------------------------------------------------------- *)
C4_SecondReadConsumed ==
    (last.op = "read_byte" /\ last.wasProbed) => last.result = Consumed

\* The second read of a frame that was never written.
C4_Witness ==
    /\ last.op = "read_byte" /\ last.wasProbed /\ ~last.wasWritten
    /\ last.result = Consumed

(* --------------------------------------------------------------------- *)
(* C5: no write queries a Guard name: the Guard of a frame is cached only *)
(* if a read has probed the frame, so nothing but an earlier read makes   *)
(* read_byte return Err(Consumed).                                        *)
(* --------------------------------------------------------------------- *)
C5_WritersNeverTouchGuard ==
    /\ \A pos \in written \ probed : SlotName(pos, Guard) \notin cache
    /\ (last.op = "read_byte" /\ last.result = Consumed) => last.wasProbed

\* A multi-byte write has returned and left frames that no read has probed.
C5_Witness ==
    /\ last.op = "write_bytes" /\ last.result.kind = "Ok"
    /\ Cardinality(written \ probed) >= 2

(* --------------------------------------------------------------------- *)
(* C6: the outcome of read_bits is decided by the hits among the eleven   *)
(* slots of the frame, in this order: Free when Reservation is a miss,    *)
(* else Consumed when Guard is a hit, else Parity when the parity of the  *)
(* Data hits differs from the Parity hit, else Ok of the byte whose set   *)
(* bits are the Data hits; decoy hits change nothing.                     *)
(* --------------------------------------------------------------------- *)
C6_OutcomeByClassification ==
    last.op = "read_bits" =>
        LET hit(tag) == SlotOf(last.arg, tag) \in scen.input
            odd == Cardinality({i \in 0 .. 7 : hit(Data(i))}) % 2 = 1
        IN  /\ ~hit(Reservation) => last.result = Free
            /\ (hit(Reservation) /\ hit(Guard)) => last.result = Consumed
            /\ (hit(Reservation) /\ ~hit(Guard) /\ odd # hit(Parity))
                   => last.result = ParityError
            /\ (hit(Reservation) /\ ~hit(Guard) /\ odd = hit(Parity))
                   => /\ last.result.kind = "Ok"
                      /\ last.result.val \in Byte
                      /\ \A i \in 0 .. 7 :
                             ((last.result.val \div (2 ^ i)) % 2 = 1) <=> hit(Data(i))

\* Reservation misses while Guard, a Data slot and a decoy hit.
C6_Witness ==
    /\ last.op = "read_bits" /\ last.result = Free
    /\ SlotOf(last.arg, Reservation) \notin scen.input
    /\ SlotOf(last.arg, Guard) \in scen.input
    /\ SlotOf(last.arg, Data(3)) \in scen.input
    /\ SlotOf(last.arg, Decoy) \in scen.input
    /\ chan["A"].derivator.salt > 12

(* --------------------------------------------------------------------- *)
(* C7: write_bytes panics exactly when the buffer is empty or 255 bytes   *)
(* or longer, and the panicking call leaves the channel (derivators,      *)
(* calibration) and the cache as it found them; a call with 1 to 254      *)
(* bytes returns Ok.                                                      *)
(* --------------------------------------------------------------------- *)
C7_RejectedBeforeAnyEffect ==
    last.op = "write_bytes" =>
        /\ (last.result = Panic) <=> (Len(last.arg) = 0 \/ Len(last.arg) >= 255)
        /\ last.result = Panic =>
               /\ chan[last.chan] = last.pre[1].x
               /\ cache = last.pre[1].cache
        /\ (Len(last.arg) >= 1 /\ Len(last.arg) <= 254) => last.result.kind = "Ok"

\* A 255-byte buffer is rejected by a calibrated writer over a filled cache.
C7_Witness ==
    /\ last.op = "write_bytes" /\ last.result = Panic
    /\ Len(last.arg) = 255
    /\ chan[last.chan].query_times # None
    /\ chan[last.chan].derivator.salt > 1
    /\ cache # {}

(* --------------------------------------------------------------------- *)
(* C8: the slots of byte_output(b) hold Reservation once, Data(i) exactly *)
(* for the set bits i of b, never Guard, and the number of Data slots     *)
(* plus one for a Parity slot is even.                                    *)
(* --------------------------------------------------------------------- *)
C8_EvenParityFrame ==
    last.op = "byte_output" =>
        LET slots == last.result.val
            tagged(tag) == {k \in DOMAIN slots : slots[k][1] = tag}
            data == {k \in DOMAIN slots : slots[k][1][1] = "Data"}
        IN  /\ Cardinality(tagged(Reservation)) = 1
            /\ \A i \in 0 .. 7 :
                   Cardinality(tagged(Data(i)))
                       = (IF (last.arg \div (2 ^ i)) % 2 = 1 THEN 1 ELSE 0)
            /\ tagged(Guard) = {}
            /\ Cardinality(tagged(Parity)) <= 1
            /\ (Cardinality(data) + Cardinality(tagged(Parity))) % 2 = 0

\* A byte with three set bits, written past the first frame: Parity is sent.
C8_Witness ==
    /\ last.op = "byte_output" /\ last.arg = 7
    /\ \E k \in DOMAIN last.result.val : last.result.val[k][1] = Parity
    /\ Len(last.result.val) = 5
    /\ last.frames[1][2] > 1

(* --------------------------------------------------------------------- *)
(* C9: reset() and change_secret(s) leave the channel exactly as          *)
(* from_secret(server, secret) builds it, for the current secret and for  *)
(* s: both derivators rewound, no calibration; the names that follow are  *)
(* the names that follow construction.                                    *)
(* --------------------------------------------------------------------- *)
C9_ResetIsFromSecret ==
    last.op \in {"reset", "change_secret"} =>
        LET x == chan[last.chan]
            fresh == XipologyFromSecret(Server, last.arg)
        IN  /\ last.op = "reset" => last.arg = last.pre[1].x.secret
            /\ x = fresh
            /\ TakeNames(x.derivator, 11 * MaxFrames)
                   = TakeNames(fresh.derivator, 11 * MaxFrames)
            /\ TakeNames(x.decoy, MaxFrames) = TakeNames(fresh.decoy, MaxFrames)

\* change_secret to another secret, on a channel that had read and moved on.
C9_Witness ==
    /\ last.op = "change_secret"
    /\ last.pre[1].x.secret # last.arg
    /\ last.pre[1].x.query_times # None
    /\ last.pre[1].x.derivator.salt > 1

(* --------------------------------------------------------------------- *)
(* C10: two channels with the same secret that have stepped through the   *)
(* same number of frames hold the same primary and decoy derivator, and   *)
(* the writer's slots of the next frame carry the names the reader lays   *)
(* out under the same tags; a channel that has not stepped holds the      *)
(* decoy derivator seeded with the first block of its secret, and its     *)
(* first name comes from the block after it.                              *)
(* --------------------------------------------------------------------- *)
C10_SameSecretSameNames ==
    /\ \A c1, c2 \in Channels :
           (chan[c1].secret = chan[c2].secret /\ stepped[c1] = stepped[c2]) =>
               /\ chan[c1].derivator = chan[c2].derivator
               /\ chan[c1].decoy = chan[c2].decoy
               /\ \A byte \in ByteChoices :
                      Range(ByteOutput(chan[c1], byte, 0).slots)
                          \subseteq Range(ByteInput(chan[c2], 0).slots)
    /\ \A c \in Channels :
           stepped[c] = 0 =>
               LET first == HkdfExtractAndExpand(FromSecret(chan[c].secret))
               IN  /\ chan[c].decoy = FromSecret(first.out)
                   /\ NextName(chan[c].derivator).name
                          = NameOf(HkdfExtractAndExpand(first.nd).out)

\* A writer and a reader of one secret, level after a frame each.
C10_Witness ==
    /\ chan["A"].secret = chan["B"].secret
    /\ stepped["A"] = stepped["B"] /\ stepped["A"] > 0
    /\ written # {} /\ probed # {}
    /\ last.op = "read_byte" /\ last.result.kind = "Ok"

(* --------------------------------------------------------------------- *)
(* C11 (as stated): the first read of a channel whose calibration queries *)
(* fail in transport returns Err(IO), from read_byte and from read_bytes. *)
(* --------------------------------------------------------------------- *)
C11_CalibrationFailureIsIO ==
    (/\ last.op \in {"read_byte", "read_bytes"}
     /\ scen.kind = "net"
     /\ scen.input.x.query_times = None
     /\ scen.input.net.down)
        => last.result = IO

(* --------------------------------------------------------------------- *)
(* C12: write_byte(b) returns Ok(n), n being the slots emitted for b: one *)
(* for Reservation, one for each set bit, one more when their number is   *)
(* odd (no decoys are emitted); an accepted write_bytes(buf) returns Ok   *)
(* of the sum over the length frame and the payload frames; the probes    *)
(* that fail change nothing of it.                                        *)
(* --------------------------------------------------------------------- *)
C12_WriteCountsAttempts ==
    LET ones(b) == Cardinality({i \in 0 .. 7 : (b \div (2 ^ i)) % 2 = 1})
        slots(b) == 1 + ones(b) + (ones(b) % 2)
    IN  /\ last.op = "write_byte" => last.result = Ok(slots(last.arg))
        /\ (last.op = "write_bytes" /\ Len(last.arg) >= 1 /\ Len(last.arg) <= 254)
               => last.result
                      = Ok(slots(Len(last.arg))
                           + SumOf([i \in DOMAIN last.arg |-> slots(last.arg[i])],
                                   Len(last.arg)))

\* A write_bytes none of whose probes reached the resolver returned its count.
C12_Witness ==
    /\ last.op = "write_bytes" /\ scen.kind = "net"
    /\ scen.input.net.lost = AllTags
    /\ last.result = Ok(9)
    /\ cache = scen.input.cache
    /\ Len(last.frames) = 3

(* --------------------------------------------------------------------- *)
(* C13: read_bytes returns an error only when the calibration failed or   *)
(* the length frame reads as Free, Consumed or Parity; when the length    *)
(* frame decodes to L it returns Ok(v) with Len(v) = L, v[i] being the    *)
(* byte of payload frame i when that frame reads Ok and 32 when it reads  *)
(* Free, Consumed or Parity, in the order of the frames.                  *)
(* --------------------------------------------------------------------- *)
C13_LossyReadBytes ==
    (last.op = "read_bytes" /\ scen.kind = "net") =>
        LET net == scen.input.net
            x0 == scen.input.x
            qt == chan[last.chan].query_times
            pos(i) == <<x0.secret, x0.derivator.salt + 11 * i>>
            hit(i, tag) ==
                /\ tag \notin net.lost
                /\ SlotName(pos(i), tag) \in scen.input.cache
                /\ qt # None /\ qt[1].hit # qt[1].miss
            odd(i) == Cardinality({b \in 0 .. 7 : hit(i, Data(b))}) % 2 = 1
            reads(i) ==
                IF ~hit(i, Reservation) THEN Free
                ELSE IF hit(i, Guard) THEN Consumed
                ELSE IF odd(i) # hit(i, Parity) THEN ParityError
                ELSE Ok(SumOf([b \in 1 .. 8 |->
                                  IF hit(i, Data(b - 1)) THEN 2 ^ (b - 1) ELSE 0], 8))
        IN  /\ last.result.kind # "Ok" =>
                   \/ x0.query_times = None /\ net.down
                   \/ reads(0) \in {Free, Consumed, ParityError}
            /\ reads(0).kind = "Ok" =>
                   /\ last.result.kind = "Ok"
                   /\ Len(last.result.val) = reads(0).val
                   /\ \A i \in 1 .. reads(0).val :
                          last.result.val[i]
                              = (IF reads(i).kind = "Ok" THEN reads(i).val ELSE 32)

\* A payload of one frame that reads Ok and one that does not.
C13_Witness ==
    /\ last.op = "read_bytes" /\ scen.kind = "net"
    /\ last.result = Ok(<<1, 32>>)
    /\ scen.input.net.lost # {}

(* --------------------------------------------------------------------- *)
(* C14: every frame operation moves the primary derivator of its channel  *)
(* on by eleven names, whatever the byte written and whatever the read    *)
(* returns: after m frame operations the channel stands at name 11m, a    *)
(* call probes only the eleven names from there, and a write_byte that    *)
(* follows a read_byte that returned Free on the same channel writes the  *)
(* frame after the one that was read.                                     *)
(* --------------------------------------------------------------------- *)
C14_FramesAligned ==
    [][/\ \A c \in Channels :
              chan'[c].derivator.salt = 1 + 11 * stepped'[c]
       /\ last'.op \in {"write_byte", "write_bytes", "read_byte", "read_bytes"} =>
              /\ chan'[last'.chan].derivator.salt
                     = chan[last'.chan].derivator.salt + 11 * Len(last'.frames)
              /\ \A i \in DOMAIN last'.frames :
                     last'.frames[i]
                         = <<chan[last'.chan].secret,
                             chan[last'.chan].derivator.salt + 11 * (i - 1)>>
              /\ \A name \in cache' \ cache :
                     /\ name[1] = chan[last'.chan].secret
                     /\ name[2] >= 1 + 11 * stepped[last'.chan]
                     /\ name[2] <= 11 * stepped'[last'.chan]
       /\ (/\ last.op = "read_byte" /\ last.result = Free
           /\ last'.op = "write_byte" /\ last'.chan = last.chan)
              => last'.frames[1] = <<last.frames[1][1], last.frames[1][2] + 11>>
      ]_vars

\* A channel has written the frame after one it read as Free.
C14_Witness ==
    /\ last.op = "write_byte" /\ last.arg = 65
    /\ stepped[last.chan] = 2
    /\ <<last.frames[1][1], last.frames[1][2] - 11>> \in probed \ written
    /\ last.frames[1] \notin probed

(* --------------------------------------------------------------------- *)
(* C15: the reader sees Reservation as a hit and Guard as a miss; when an *)
(* odd number of the nine Data and Parity slots is classified the other   *)
(* way than the writer set them, read_byte returns Err(Parity); when the  *)
(* number is even and not zero it returns Ok of another byte than the one *)
(* written.                                                               *)
(* --------------------------------------------------------------------- *)
C15_ParityDetectsOddFlips ==
    (scen.kind = "flip" /\ scen.phase = "done") =>
        LET n == Cardinality(scen.input.flipped)
        IN  /\ n % 2 = 1 => last.result = ParityError
            /\ (n > 0 /\ n % 2 = 0) =>
                   /\ last.result.kind = "Ok"
                   /\ last.result.val \in Byte
                   /\ last.result.val # scen.input.byte
            /\ n = 0 => last.result = Ok(scen.input.byte)

\* One Data slot of a written byte reads the other way.
C15_Witness ==
    /\ scen.kind = "flip" /\ scen.phase = "done"
    /\ scen.input.byte = 65
    /\ scen.input.flipped = {Data(6)}
    /\ last.op = "read_byte" /\ last.result = ParityError

(* --------------------------------------------------------------------- *)
(* C16: a probe of latency d is a hit exactly when d is strictly nearer   *)
(* to the hit average than to the miss average; at the midpoint of the    *)
(* two, and when the two are equal, it is a miss; a probe that fails is a *)
(* miss, so a frame whose Reservation probe fails reads as Free.  (The    *)
(* frame reads Ok(0) when its Reservation alone is a hit.)                *)
(* --------------------------------------------------------------------- *)
C16_NearestCentroid ==
    (scen.kind = "classify" /\ scen.phase = "done") =>
        LET d == last.arg
            h == scen.input.hit
            m == scen.input.miss
            nearer == (d - h) * (d - h) < (d - m) * (d - m)
        IN  /\ (d # NaN /\ nearer) => last.result = Ok(0)
            /\ (d # NaN /\ ~nearer) => last.result = Free
            /\ (d # NaN /\ 2 * d = h + m) => last.result = Free
            /\ h = m => last.result = Free
            /\ d = NaN => last.result = Free

\* A latency at the exact midpoint of the two averages.
C16_Witness ==
    /\ scen.kind = "classify" /\ scen.phase = "done"
    /\ scen.input.hit = 1 /\ scen.input.miss = 3 /\ last.arg = 2
    /\ last.result = Free

(* --------------------------------------------------------------------- *)
(* C17: the calibration of a channel is absent after construction; a      *)
(* write leaves it as it is; a read_byte or read_bytes sets it when it is *)
(* absent and keeps its value when it is present, so a read has always    *)
(* classified with a calibration; reset and change_secret make it absent; *)
(* nothing else changes it.                                               *)
(* --------------------------------------------------------------------- *)
C17_CalibrationLifecycle ==
    /\ \A c \in Channels : chan[c].query_times = None
    /\ [][\A c \in Channels :
              LET before == chan[c].query_times
                  after == chan'[c].query_times
                  mine == last'.chan = c
                  read == last'.op \in {"read_byte", "read_bytes"}
                  cleared == last'.op \in {"reset", "change_secret"}
              IN  /\ last'.op \in {"write_byte", "write_bytes"} => after = before
                  /\ (read /\ mine) =>
                         /\ after # None
                         /\ before # None => after = before
                  /\ (cleared /\ mine) => after = None
                  /\ after # before =>
                         /\ mine
                         /\ \/ read /\ before = None
                            \/ cleared /\ after = None
         ]_vars

\* A calibrated channel has read over a network that is down and has kept
\* the calibration it had.
C17_Witness ==
    /\ last.op \in {"read_byte", "read_bytes"} /\ scen.kind = "net"
    /\ scen.input.net.down
    /\ scen.input.x.query_times # None
    /\ chan[last.chan].query_times = scen.input.x.query_times
    /\ chan[last.chan].query_times[1].hit < chan[last.chan].query_times[1].miss


(* -------------------------- C18: join barrier ------------------------ *)

\* The names a fan-out handed to its probes.
FanOutNames(call) ==
    UNION {SlotNames(call.inputs[f]) : f \in DOMAIN call.inputs}

\* C18: write_byte, write_bytes, read_byte and read_bytes return only after
\* every probe they dispatched has completed: a call that has returned has no
\* probe in flight, every name a returned write emitted is cached, and every
\* slot of a returned read has its measured delay.
C18_JoinBarrier ==
    scen.kind = "probe" =>
        \A c \in Channels :
            (~scen.input[c].running /\ scen.input[c].op # "none") =>
                /\ scen.input[c].pending = {}
                /\ FanOutNames(scen.input[c]) \subseteq cache
                /\ \A p \in Probes(scen.input[c].inputs) :
                       scen.input[c].delays[p[1]][p[2]] # NaN

\* A write_bytes of one byte has returned with its six names cached, and a
\* read_bytes after it has returned the byte.
C18_Witness ==
    /\ scen.kind = "probe"
    /\ ~scen.input["A"].running
    /\ scen.input["A"].op = "write_bytes"
    /\ Len(scen.input["A"].inputs[1]) = 6
    /\ ~scen.input["B"].running
    /\ scen.input["B"].stage = "payload"
    /\ last.op = "read_bytes"
    /\ last.result = Ok(<<65>>)

(* ----------------------- C19: shuffle before dispatch ---------------- *)

\* The block of the derivator a name was drawn at.
BlockOf(slot) == slot[2][2]

\* The list is in the order the names were drawn.
InDerivatorOrder(slots) ==
    \A i \in DOMAIN slots : \A j \in DOMAIN slots :
        i < j => BlockOf(slots[i]) < BlockOf(slots[j])

\* C19: the slot list handed to the probe fan-out has been shuffled: a list
\* of two or more slots is not dispatched in derivator order.
C19_ShuffledBeforeDispatch ==
    scen.kind = "probe" =>
        \A c \in Channels : \A f \in DOMAIN scen.input[c].inputs :
            Len(scen.input[c].inputs[f]) >= 2 =>
                ~InDerivatorOrder(scen.input[c].inputs[f])


(* ----------------------- C20: rolling rendezvous secret -------------- *)

\* The window of a second of the clock.
WindowOf(epoch) == epoch \div 300

\* The calls before call i that fell into the window of call i.
EarlierInWindow(results, i) ==
    {j \in 1 .. (i - 1) : WindowOf(results[j].at) = WindowOf(results[i].at)}

\* C20: every call of secret() returns "<base>-<w>-<c>" with w the window of
\* the second of the call and c the number of calls the generator already
\* made within that window.
C20_RollingSecret ==
    scen.kind = "gen" =>
        \A i \in DOMAIN scen.results :
            scen.results[i].out =
                FormatSecret(BaseSecret, Decimal(WindowOf(scen.results[i].at)),
                             Cardinality(EarlierInWindow(scen.results, i)))

\* Two calls in window 0, then the first two calls of window 1.
C20_Witness ==
    /\ scen.kind = "gen"
    /\ Len(scen.results) = 4
    /\ scen.results[2].out = <<"rendezvous", "-", "0", "-", "1">>
    /\ scen.results[3].out = <<"rendezvous", "-", "1", "-", "0">>
    /\ scen.results[4].out = <<"rendezvous", "-", "1", "-", "1">>
    /\ scen.results[3].at = 300


(* ------------------- C21: a reader racing the writer ----------------- *)

\* Every set bit of v is a set bit of b.
BitsWithin(v, b) == \A bit \in 0 .. 7 : GetBit(v, bit) > 0 => GetBit(b, bit) > 0

\* The call of channel c has returned.
HasReturned(c) == ~scen.input[c].running /\ scen.input[c].op # "none"

\* C21: a reader whose probes interleave with those of the writer of byte b
\* on the same frame never returns Consumed: it returns Free, Parity or Ok(v)
\* with the set bits of v among those of b.
C21_ReaderRacingWriter ==
    (scen.kind = "race" /\ scen.phase = "rw" /\ HasReturned("B")) =>
        \/ scen.input["B"].result \in {Free, ParityError}
        \/ /\ scen.input["B"].result.kind = "Ok"
           /\ BitsWithin(scen.input["B"].result.val, scen.sent)

\* The writer wrote 7 and the reader read 1: it saw Data(0) and the Parity
\* slot but was ahead of the writer on Data(1) and Data(2).
C21_Witness ==
    /\ scen.kind = "race"
    /\ scen.phase = "rw"
    /\ scen.sent = 7
    /\ HasReturned("A")
    /\ HasReturned("B")
    /\ scen.input["B"].result = Ok(1)

(* ----------------------- C22: two readers racing --------------------- *)

\* The delay the call of channel c measured on its Guard slot.
GuardDelay(c) == scen.input[c].delays[1][2]

\* C22: of two readers of one written frame exactly one returns Consumed,
\* the one whose Guard probe found the name cached by the other's; the other
\* reader returns Parity or Ok(v), v holding at least the written bits, and
\* neither returns Free.
C22_TwoReadersRacing ==
    (scen.kind = "race" /\ scen.phase = "rr" /\ HasReturned("A") /\ HasReturned("B")) =>
        \E c \in Channels : \E o \in Channels \ {c} :
            /\ scen.input[c].result = Consumed
            /\ GuardDelay(c) = HitLatency
            /\ GuardDelay(o) = MissLatency
            /\ \/ scen.input[o].result = ParityError
               \/ /\ scen.input[o].result.kind = "Ok"
                  /\ BitsWithin(scen.sent, scen.input[o].result.val)

\* The frame held 1; A came second on the Guard and B read 7, because A had
\* probed Data(1) and Data(2) before B did.
C22_Witness ==
    /\ scen.kind = "race"
    /\ scen.phase = "rr"
    /\ scen.sent = 1
    /\ HasReturned("A")
    /\ HasReturned("B")
    /\ scen.input["A"].result = Consumed
    /\ scen.input["B"].result = Ok(7)


(* -------------------- C23: rendezvous write location ----------------- *)

\* The rolling secret of window w with counter n.
RdvPoint(w, n) == FormatSecret(BaseSecret, Decimal(w), n)

RdvWindows == 0 .. WindowOf(MaxRdvEpoch)
RdvCounters == 0 .. MaxRdvCalls

\* The step is a read_bytes, or the write_bytes, of the participant on c.
ReadsNow(c) == calls' = calls + 1 /\ last'.op = "read_bytes" /\ last'.chan = c
WritesNow(c) == calls' = calls + 1 /\ last'.op = "write_bytes" /\ last'.chan = c

\* The last call of the participant on c was its write.
JustWrote(c) == \E pair \in scen.input[c].wrote : pair[1] = chan[c].secret

\* What a participant reads at a point the other one has been at: Consumed
\* where the other one read, its nick list where it wrote.
ScansAfter(c, o) ==
    ReadsNow(c) =>
        /\ chan'[c].secret \in scen.input[o].reads => last'.result = Consumed
        /\ \A pair \in scen.input[o].wrote :
               (pair[1] = chan'[c].secret /\ pair[1] \notin scen.input[o].reads)
                   => last'.result = Ok(pair[2])

\* C23 as stated: after a Free at counter n the nicks are written under
\* counter n + 1 of the same window and the next read uses n + 2; a second
\* participant reads Consumed where the first read and the nick list where
\* it wrote.
C23_WritesAtNextCounter ==
    [][scen.kind = "rdv" =>
          \A c \in Channels : \A w \in RdvWindows : \A n \in RdvCounters :
              chan[c].secret = RdvPoint(w, n) =>
                  /\ WritesNow(c) => chan'[c].secret = RdvPoint(w, n + 1)
                  /\ (ReadsNow(c) /\ JustWrote(c)) =>
                         chan'[c].secret = RdvPoint(w, n + 1)
                  /\ \A o \in Channels \ {c} : ScansAfter(c, o)]_vars

\* The point after counter n of window w for a call made at second `epoch`.
NextPoint(w, n, epoch) ==
    IF WindowOf(epoch) = w THEN RdvPoint(w, n + 1)
    ELSE RdvPoint(WindowOf(epoch), 0)

\* C23, amended: after a Free the nicks are written under the next secret of
\* the generator, never under the one just read: counter n + 1 while the
\* clock is still in the window of the read, counter 0 of the new window
\* once it has moved on; the read after the write uses the secret after
\* that, by the same rule.  A second participant reads Consumed where the
\* first read and the first one's nick list where it wrote.
C23_WritesAtNextSecret ==
    [][scen.kind = "rdv" =>
          \A c \in Channels : \A w \in RdvWindows : \A n \in RdvCounters :
              chan[c].secret = RdvPoint(w, n) =>
                  /\ WritesNow(c) =>
                         /\ chan'[c].secret = NextPoint(w, n, scen.sent)
                         /\ chan'[c].secret # chan[c].secret
                         /\ \E pair \in scen'.input[c].wrote :
                                /\ pair[1] = chan'[c].secret
                                /\ Nick(c) \in DecodeNicks(pair[2])
                  /\ (ReadsNow(c) /\ JustWrote(c)) =>
                         chan'[c].secret = NextPoint(w, n, scen.sent)
                  /\ \A o \in Channels \ {c} : ScansAfter(c, o)]_vars

\* A read window 0 at counter 0, found it Free and wrote its nick when the
\* clock was in window 1, under counter 0; B then scanned: Consumed at the
\* point A read, A's nick at the point A wrote.
C23_Witness ==
    /\ scen.kind = "rdv"
    /\ scen.input["A"].reads = {RdvPoint(0, 0)}
    /\ scen.input["A"].wrote = {<<RdvPoint(1, 0), <<65>>>>}
    /\ scen.input["B"].reads = {RdvPoint(0, 0), RdvPoint(1, 0)}
    /\ last.chan = "B"
    /\ last.arg = RdvPoint(1, 0)
    /\ last.result = Ok(<<65>>)

====
